---------------------------- MODULE Spec2Model ----------------------------
(***************************************************************************)
(* A model of the bdf-parser crate: the bounding-box algebra of lib.rs,    *)
(* the statement primitives of helpers.rs, the header parser of            *)
(* metadata.rs, the glyph parser of glyph.rs and the top-level sequencing  *)
(* of BdfFont::parse.  Input text is a sequence of one-character strings.  *)
(***************************************************************************)
EXTENDS Integers, Sequences, FiniteSets, TLC

VARIABLES
    a,          \* BoundingBox::union: the receiver (self)
    b,          \* BoundingBox::union: the argument (other)
    res,        \* BoundingBox::union: the outcome of the call
    upc,        \* BoundingBox::union: "ready" before the call, "done" after
    gdoc,       \* glyph: what the glyph block under test says
    ginput,     \* glyph: the text of the glyph block
    gres,       \* glyph: the result of glyph(ginput)
    gpc,        \* glyph: "ready" before the call, "done" after
    fdoc,       \* BdfFont::parse: what the font file under test says
    finput,     \* BdfFont::parse: the text of the font file
    fst,        \* BdfFont::parse: the remainder and the sections parsed so
                \* far, or the error the parse ended with
    fpc,        \* BdfFont::parse: the section to parse next, then "done"
    hdoc,       \* header: what the header text under test says
    hinput,     \* header: the header text
    hres,       \* header: the result of header(hinput)
    hpc         \* header: "ready" before the call, "done" after

vars ==
    <<a, b, res, upc, gdoc, ginput, gres, gpc, fdoc, finput, fst, fpc,
      hdoc, hinput, hres, hpc>>

(***************************************************************************)
(* i32 arithmetic.  The limits are those of Rust's i32 (Coord.x, Coord.y). *)
(* An overflowing +, - panics in a build with overflow checks (debug) and  *)
(* wraps modulo 2^32 in a build without them (release).                    *)
(***************************************************************************)
I32Max == 2147483647

I32Min == (-I32Max) - 1

\* x + y leaves the i32 range
AddOverflows(x, y) ==
    \/ y > 0 /\ x > I32Max - y
    \/ y < 0 /\ x < I32Min - y

\* x - y leaves the i32 range
SubOverflows(x, y) ==
    \/ y < 0 /\ x > I32Max + y
    \/ y > 0 /\ x < I32Min + y

\* x + y modulo 2^32, as a two's complement i32
WrapAdd(x, y) ==
    IF y > 0 /\ x > I32Max - y THEN (x - I32Max - 1) + (y - I32Max - 1)
    ELSE IF y < 0 /\ x < I32Min - y THEN (x + I32Max + 1) + (y + I32Max + 1)
    ELSE x + y

\* x - y modulo 2^32, as a two's complement i32
WrapSub(x, y) ==
    IF y < 0 /\ x > I32Max + y THEN (x - I32Max - 1) - (y + I32Max + 1)
    ELSE IF y > 0 /\ x < I32Min + y THEN (x + I32Max + 1) - (y - I32Max - 1)
    ELSE x - y

(***************************************************************************)
(* Exact (unbounded) integers, for stating what a result should be: a      *)
(* pair <<hi, lo>> stands for hi * 2^16 + lo with 0 <= lo < 2^16.          *)
(***************************************************************************)
WNorm(h, l) == <<h + (l \div 65536), l % 65536>>

W(x) == WNorm(0, x)

WAdd(u, v) == WNorm(u[1] + v[1], u[2] + v[2])

WSub(u, v) == WNorm(u[1] - v[1], u[2] - v[2])

WLeq(u, v) == u[1] < v[1] \/ (u[1] = v[1] /\ u[2] <= v[2])

WMax(u, v) == IF WLeq(u, v) THEN v ELSE u

Max(x, y) == IF x >= y THEN x ELSE y

\* a faulty min: the larger of the two
MutMinAsMax(x, y) == Max(x, y)

Min(x, y) == IF x <= y THEN x ELSE y

(***************************************************************************)
(* Coord and BoundingBox (lib.rs).                                         *)
(***************************************************************************)
Coord(x, y) == [x |-> x, y |-> y]

bb(offset_x, offset_y, size_x, size_y) ==
    [offset |-> Coord(offset_x, offset_y), size |-> Coord(size_x, size_y)]

Builds == {"debug", "release"}

Panic == [kind |-> "panic"]

Ok(v) == [kind |-> "ok", box |-> v]

\* offset + size - 1 of one axis overflows somewhere
CornerOverflows(o, s) ==
    AddOverflows(o, s) \/ SubOverflows(WrapAdd(o, s), 1)

\* self.offset.x + self.size.x - 1, wrapped
Corner(o, s) == WrapSub(WrapAdd(o, s), 1)

upper_right(self) ==
    Coord(Corner(self.offset.x, self.size.x), Corner(self.offset.y, self.size.y))

upper_right_overflows(self) ==
    \/ CornerOverflows(self.offset.x, self.size.x)
    \/ CornerOverflows(self.offset.y, self.size.y)

\* x_max - x_min + 1 overflows somewhere
ExtentOverflows(hi, lo) ==
    SubOverflows(hi, lo) \/ AddOverflows(WrapSub(hi, lo), 1)

Extent(hi, lo) == WrapAdd(WrapSub(hi, lo), 1)

\* some +, - of the arithmetic branch leaves the i32 range
UnionOverflows(self, other) ==
    LET self_ur == upper_right(self)
        other_ur == upper_right(other)
    IN  \/ upper_right_overflows(self)
        \/ upper_right_overflows(other)
        \/ ExtentOverflows(Max(self_ur.x, other_ur.x), Min(self.offset.x, other.offset.x))
        \/ ExtentOverflows(Max(self_ur.y, other_ur.y), Min(self.offset.y, other.offset.y))

\* the else branch of union (lib.rs 118-129)
UnionArith(self, other, build) ==
    LET self_ur == upper_right(self)
        other_ur == upper_right(other)
        x_min == Min(self.offset.x, other.offset.x)
        y_min == Min(self.offset.y, other.offset.y)
        x_max == Max(self_ur.x, other_ur.x)
        y_max == Max(self_ur.y, other_ur.y)
    IN  IF build = "debug" /\ UnionOverflows(self, other)
        THEN Panic
        ELSE Ok([offset |-> Coord(x_min, y_min),
                 size |-> Coord(Extent(x_max, x_min), Extent(y_max, y_min))])

NegativeSize(box) == box.size.x < 0 \/ box.size.y < 0

ZeroSize(box) == box.size.x = 0 \/ box.size.y = 0

\* a faulty union: no early return for a zero-size operand
MutUnionNoIdentity(self, other, build) ==
    IF NegativeSize(self) \/ NegativeSize(other) THEN Panic
    ELSE UnionArith(self, other, build)

\* BoundingBox::union(&self, other): the four assertions, the two zero-size
\* branches, then the arithmetic branch in the build's overflow semantics.
union(self, other, build) ==
    IF NegativeSize(self) \/ NegativeSize(other) THEN Panic
    ELSE IF ZeroSize(other) THEN Ok(self)
    ELSE IF ZeroSize(self) THEN Ok(other)
    ELSE UnionArith(self, other, build)

(***************************************************************************)
(* Text and the nom primitives used by the parsers (helpers.rs).  A parser *)
(* result is PFail or POk(rest, val), rest being the unconsumed remainder. *)
(* A parser built from several steps is written as a chain of operators,   *)
(* each taking the result of the step before it.                           *)
(***************************************************************************)
PFail == [ok |-> FALSE]

POk(rest, val) == [ok |-> TRUE, rest |-> rest, val |-> val]

None == [some |-> FALSE]

Some(v) == [some |-> TRUE, v |-> v]

Take(s, n) == SubSeq(s, 1, n)

Drop(s, n) == SubSeq(s, n + 1, Len(s))

\* the result r with its value replaced by v
KeepVal(v, r) == IF r.ok THEN POk(r.rest, v) ELSE PFail

Digits == {"0", "1", "2", "3", "4", "5", "6", "7", "8", "9"}

HexDigits == Digits \cup {"a", "b", "c", "d", "e", "f", "A", "B", "C", "D", "E", "F"}

\* char::to_digit(16)
HexVal(c) ==
    CASE c = "0" -> 0 [] c = "1" -> 1 [] c = "2" -> 2 [] c = "3" -> 3
      [] c = "4" -> 4 [] c = "5" -> 5 [] c = "6" -> 6 [] c = "7" -> 7
      [] c = "8" -> 8 [] c = "9" -> 9
      [] c \in {"a", "A"} -> 10 [] c \in {"b", "B"} -> 11
      [] c \in {"c", "C"} -> 12 [] c \in {"d", "D"} -> 13
      [] c \in {"e", "E"} -> 14 [] c \in {"f", "F"} -> 15

\* nom's space0/space1 characters and multispace0 characters
Blank == {" ", "\t"}

MultiBlank == {" ", "\t", "\r", "\n"}

\* how many leading characters of s, after the first i, belong to set
RECURSIVE SpanLen(_, _, _)
SpanLen(s, set, i) ==
    IF i < Len(s) /\ s[i + 1] \in set THEN SpanLen(s, set, i + 1) ELSE i

\* how many leading characters of s, after the first i, are outside set
RECURSIVE SpanLenNot(_, _, _)
SpanLenNot(s, set, i) ==
    IF i < Len(s) /\ s[i + 1] \notin set THEN SpanLenNot(s, set, i + 1) ELSE i

\* the first n characters as the value, the others as the remainder
SplitAt(s, n) == POk(Drop(s, n), Take(s, n))

\* the same, failing on an empty match
SplitAt1(s, n) == IF n = 0 THEN PFail ELSE SplitAt(s, n)

multispace0(s) == SplitAt(s, SpanLen(s, MultiBlank, 0))

space0(s) == SplitAt(s, SpanLen(s, Blank, 0))

space1(s) == SplitAt1(s, SpanLen(s, Blank, 0))

digit1(s) == SplitAt1(s, SpanLen(s, Digits, 0))

StartsWith(s, k) == Len(s) >= Len(k) /\ Take(s, Len(k)) = k

tag(k, s) == IF StartsWith(s, k) THEN POk(Drop(s, Len(k)), k) ELSE PFail

\* nom's line_ending: "\n" or "\r\n"
line_ending(s) ==
    IF StartsWith(s, <<"\n">>) THEN POk(Drop(s, 1), <<"\n">>)
    ELSE IF StartsWith(s, <<"\r", "\n">>) THEN POk(Drop(s, 2), <<"\r", "\n">>)
    ELSE PFail

\* nom's opt, applied to the result r of a parser run on s
opt(r, s) == IF r.ok THEN POk(r.rest, Some(r.val)) ELSE POk(s, None)

\* the number of characters before the first occurrence of pat in s, from
\* offset i on; -1 when there is none
RECURSIVE FindFrom(_, _, _)
FindFrom(s, pat, i) ==
    IF i + Len(pat) > Len(s) THEN -1
    ELSE IF SubSeq(s, i + 1, i + Len(pat)) = pat THEN i
    ELSE FindFrom(s, pat, i + 1)

SplitAtFound(s, n) == IF n < 0 THEN PFail ELSE SplitAt(s, n)

take_until(pat, s) == SplitAtFound(s, FindFrom(s, pat, 0))

\* the decimal value of a digit string as an exact integer, failing once it
\* no longer fits 32 bits (checked_mul / checked_add of from_str_radix)
RECURSIVE DecAcc(_, _, _)
DecNext(digs, i, n) ==
    IF n[1] > 65535 THEN [ok |-> FALSE] ELSE DecAcc(digs, i + 1, n)

DecAcc(digs, i, acc) ==
    IF i > Len(digs) THEN [ok |-> TRUE, w |-> acc]
    ELSE DecNext(digs, i, WAdd(WNorm(acc[1] * 10, acc[2] * 10), W(HexVal(digs[i]))))

\* str::parse::<i32> of the recognized text: v is the magnitude
I32Checked(neg, rest, v) ==
    IF ~v.ok THEN PFail
    ELSE IF neg
    THEN IF WLeq(v.w, <<32768, 0>>)
         THEN POk(rest, ((-v.w[1]) * 65536) - v.w[2])
         ELSE PFail
    ELSE IF WLeq(v.w, <<32767, 65535>>)
         THEN POk(rest, v.w[1] * 65536 + v.w[2])
         ELSE PFail

I32Value(neg, d) ==
    IF ~d.ok THEN PFail ELSE I32Checked(neg, d.rest, DecAcc(d.val, 1, W(0)))

\* opt(one_of("+-"))
SignLen(s) == IF Len(s) > 0 /\ s[1] \in {"+", "-"} THEN 1 ELSE 0

\* <i32 as Parse>::parse: an optional sign, digits, then str::parse::<i32>
parse_i32(s) == I32Value(Len(s) > 0 /\ s[1] = "-", digit1(Drop(s, SignLen(s))))

U32Checked(rest, v) == IF ~v.ok THEN PFail ELSE POk(rest, v.w)

U32Value(d) == IF ~d.ok THEN PFail ELSE U32Checked(d.rest, DecAcc(d.val, 1, W(0)))

\* <u32 as Parse>::parse: digits, then str::parse::<u32>; the value is kept
\* as an exact integer <<hi, lo>>
parse_u32(s) == U32Value(digit1(s))

\* separated_pair(first, space1, second): the blanks after the first value
AfterSpace1(r) == IF r.ok THEN KeepVal(r.val, space1(r.rest)) ELSE PFail

\* separated_pair: the first value av and the result of the second parser
PairWith(av, r) == IF r.ok THEN POk(r.rest, <<av, r.val>>) ELSE PFail

PointSecond(x) == IF x.ok THEN PairWith(x.val, parse_i32(x.rest)) ELSE PFail

PointFrom(r) == IF r.ok THEN POk(r.rest, [x |-> r.val[1], y |-> r.val[2]]) ELSE PFail

\* <Point as Parse>::parse
parse_Point(s) == PointFrom(PointSecond(AfterSpace1(parse_i32(s))))

SizeSecond(w) == IF w.ok THEN PairWith(w.val, parse_u32(w.rest)) ELSE PFail

SizeFrom(r) ==
    IF r.ok THEN POk(r.rest, [width |-> r.val[1], height |-> r.val[2]]) ELSE PFail

\* <Size as Parse>::parse
parse_Size(s) == SizeFrom(SizeSecond(AfterSpace1(parse_u32(s))))

RectangleSecond(size) ==
    IF size.ok THEN PairWith(size.val, parse_Point(size.rest)) ELSE PFail

RectangleFrom(r) ==
    IF r.ok THEN POk(r.rest, [top_left |-> r.val[2], size |-> r.val[1]]) ELSE PFail

\* <Rectangle as Parse>::parse: the size, then the position
parse_Rectangle(s) == RectangleFrom(RectangleSecond(AfterSpace1(parse_Size(s))))

\* the keywords of the format
Kw ==
    [COMMENT |-> <<"C", "O", "M", "M", "E", "N", "T">>,
     STARTFONT |-> <<"S", "T", "A", "R", "T", "F", "O", "N", "T">>,
     FONT |-> <<"F", "O", "N", "T">>,
     SIZE |-> <<"S", "I", "Z", "E">>,
     FONTBOUNDINGBOX |-> <<"F", "O", "N", "T", "B", "O", "U", "N", "D", "I", "N", "G", "B", "O", "X">>,
     STARTPROPERTIES |-> <<"S", "T", "A", "R", "T", "P", "R", "O", "P", "E", "R", "T", "I", "E", "S">>,
     ENDPROPERTIES |-> <<"E", "N", "D", "P", "R", "O", "P", "E", "R", "T", "I", "E", "S">>,
     STARTCHAR |-> <<"S", "T", "A", "R", "T", "C", "H", "A", "R">>,
     ENCODING |-> <<"E", "N", "C", "O", "D", "I", "N", "G">>,
     SWIDTH |-> <<"S", "W", "I", "D", "T", "H">>,
     DWIDTH |-> <<"D", "W", "I", "D", "T", "H">>,
     BBX |-> <<"B", "B", "X">>,
     BITMAP |-> <<"B", "I", "T", "M", "A", "P">>,
     ENDCHAR |-> <<"E", "N", "D", "C", "H", "A", "R">>,
     ENDFONT |-> <<"E", "N", "D", "F", "O", "N", "T">>]

\* the keyword of the glyph count line
KwCHARS == <<"C", "H", "A", "R", "S">>

\* a faulty take_until_line_ending: only \n ends the line
MutTakeUntilLfOnly(s) == SplitAt(s, SpanLenNot(s, {"\n"}, 0))

\* take_while(|c| c != b'\n' && c != b'\r')
take_until_line_ending(s) == SplitAt(s, SpanLenNot(s, {"\n", "\r"}, 0))

\* <String as Parse>::parse: the rest of the line (the text is ASCII, so
\* parse_to never fails)
parse_String(s) == take_until_line_ending(s)

\* preceded(space1, take_until("\n")), sp being the result of space1
CommentText(sp) == IF sp.ok THEN take_until(<<"\n">>, sp.rest) ELSE PFail

\* opt(preceded(space1, take_until("\n"))) after the tag
CommentBody(t) == IF t.ok THEN opt(CommentText(space1(t.rest)), t.rest) ELSE PFail

\* the closing line_ending; an absent body is the empty string
CommentEnd(o) ==
    IF o.ok THEN KeepVal(IF o.val.some THEN o.val.v ELSE <<>>, line_ending(o.rest))
    ELSE PFail

\* comment: COMMENT, an optional body up to the next "\n", a line ending
comment(s) == CommentEnd(CommentBody(tag(Kw.COMMENT, s)))

\* many0(comment)
RECURSIVE many0_comment(_, _)
Many0Next(s, acc, c) ==
    IF c.ok /\ Len(c.rest) < Len(s)
    THEN many0_comment(c.rest, Append(acc, c.val))
    ELSE POk(s, acc)

many0_comment(s, acc) == Many0Next(s, acc, comment(s))

\* optional_comments: preceded(multispace0, many0(comment))
optional_comments(s) == many0_comment(multispace0(s).rest, <<>>)

Space1After(t) == IF t.ok THEN space1(t.rest) ELSE PFail

\* statement: optional white space, the keyword, blanks
statement_head(keyword, s) == Space1After(tag(keyword, multispace0(s).rest))

OptLineEnding(s) == opt(line_ending(s), s)

\* statement: after the parameters p, blanks and an optional line ending
statement_tail(p) ==
    IF p.ok THEN KeepVal(p.val, OptLineEnding(space0(p.rest).rest)) ELSE PFail

(***************************************************************************)
(* The glyph parser (glyph.rs).                                            *)
(***************************************************************************)
\* the characters of s that belong to set, in order
RECURSIVE Filter(_, _)
Filter(s, set) ==
    IF s = <<>> THEN <<>>
    ELSE IF Head(s) \in set THEN <<Head(s)>> \o Filter(Tail(s), set)
    ELSE Filter(Tail(s), set)

\* a faulty chunks: groups of 2 digits, one byte each
RECURSIVE MutChunksPerByte(_, _)
MutChunksPerByte(s, n) ==
    IF s = <<>> THEN <<>>
    ELSE IF Len(s) <= 2 THEN <<s>>
    ELSE <<Take(s, 2)>> \o MutChunksPerByte(Drop(s, 2), n)

\* slice::chunks(n)
RECURSIVE chunks(_, _)
chunks(s, n) ==
    IF s = <<>> THEN <<>>
    ELSE IF Len(s) <= n THEN <<s>>
    ELSE <<Take(s, n)>> \o chunks(Drop(s, n), n)

\* the value of at most four hexadecimal digits, first digit most significant
RECURSIVE HexNum(_)
HexNum(s) ==
    IF s = <<>> THEN 0 ELSE HexNum(Take(s, Len(s) - 1)) * 16 + HexVal(s[Len(s)])

\* one chunk of at most 8 digits as a u32: the sum of digit << (k * 4), k
\* counted from the chunk's last digit; kept as <<hi, lo>>
ChunkValue(c) ==
    IF Len(c) <= 4 THEN <<0, HexNum(c)>>
    ELSE <<HexNum(Take(c, Len(c) - 4)), HexNum(Drop(c, Len(c) - 4))>>

ChunkValues(cs) == [i \in 1 .. Len(cs) |-> ChunkValue(cs[i])]

ChunkDigits == 8

BitmapData(t) == IF t.ok THEN take_until(Kw.ENDCHAR, t.rest) ELSE PFail

BitmapEnd(data) ==
    IF data.ok THEN KeepVal(data.val, tag(Kw.ENDCHAR, data.rest)) ELSE PFail

BitmapValue(e) ==
    IF e.ok
    THEN POk(e.rest, ChunkValues(chunks(Filter(e.val, HexDigits), ChunkDigits)))
    ELSE PFail

\* parse_bitmap: everything between BITMAP and ENDCHAR, its hexadecimal
\* digits cut into chunks of 8, each chunk one u32
parse_bitmap(s) ==
    BitmapValue(BitmapEnd(BitmapData(tag(Kw.BITMAP, multispace0(s).rest))))

\* char::from_u32: the scalar values are 0 ..= 0x10FFFF without the
\* surrogates 0xD800 ..= 0xDFFF
CharMax == 1114111

SurrogateMin == 55296

SurrogateMax == 57343

\* a faulty char::from_u32: surrogates accepted
MutCharFromU32NoSurrogates(u) == IF u > CharMax THEN None ELSE Some(u)

char_from_u32(u) ==
    IF u > CharMax \/ (u >= SurrogateMin /\ u <= SurrogateMax) THEN None ELSE Some(u)

\* u32::try_from(code).ok().and_then(std::char::from_u32)
EncodingOf(code) ==
    IF code.ok
    THEN POk(code.rest, IF code.val < 0 THEN None ELSE char_from_u32(code.val))
    ELSE PFail

\* parse_encoding: map(i32::parse, ...)
parse_encoding(s) == EncodingOf(parse_i32(s))

PointSizeSecond(p) == IF p.ok THEN PairWith(p.val, parse_Size(p.rest)) ELSE PFail

\* the parameters of SIZE: separated_pair(i32::parse, space1, Size::parse)
parse_point_size(s) == PointSizeSecond(AfterSpace1(parse_i32(s)))

\* the parameter parser named kind, run after the statement head h
parameters(kind, h) ==
    IF ~h.ok THEN PFail
    ELSE CASE kind = "String" -> parse_String(h.rest)
           [] kind = "encoding" -> parse_encoding(h.rest)
           [] kind = "Size" -> parse_Size(h.rest)
           [] kind = "Rectangle" -> parse_Rectangle(h.rest)
           [] kind = "size" -> parse_point_size(h.rest)
           [] kind = "u32" -> parse_u32(h.rest)

\* statement(keyword, parameters): kind names the parameter parser
statement(keyword, kind, s) ==
    statement_tail(parameters(kind, statement_head(keyword, s)))

\* the `?` of a step: the fields parsed so far in st, extended by the value
\* of the step's result r
With(st, field, r) ==
    IF r.ok THEN POk(r.rest, st.val @@ (field :> r.val)) ELSE PFail

glyph_name(s) == With(POk(s, <<>>), "name", statement(Kw.STARTCHAR, "String", s))

glyph_encoding(st) ==
    IF st.ok THEN With(st, "encoding", statement(Kw.ENCODING, "encoding", st.rest))
    ELSE PFail

glyph_scalable_width(st) ==
    IF st.ok
    THEN With(st, "scalable_width", opt(statement(Kw.SWIDTH, "Size", st.rest), st.rest))
    ELSE PFail

glyph_device_width(st) ==
    IF st.ok
    THEN With(st, "device_width", opt(statement(Kw.DWIDTH, "Size", st.rest), st.rest))
    ELSE PFail

glyph_bounding_box(st) ==
    IF st.ok THEN With(st, "bounding_box", statement(Kw.BBX, "Rectangle", st.rest))
    ELSE PFail

glyph_bitmap(st) ==
    IF st.ok THEN With(st, "bitmap", parse_bitmap(st.rest)) ELSE PFail

\* glyph: STARTCHAR, ENCODING, optional SWIDTH and DWIDTH, BBX, the bitmap
glyph(s) ==
    glyph_bitmap(glyph_bounding_box(glyph_device_width(glyph_scalable_width(
        glyph_encoding(glyph_name(s))))))

(***************************************************************************)
(* The header parser (metadata.rs).                                        *)
(***************************************************************************)
\* str::parse::<f32>, for decimal numbers: an optional sign, digits with an
\* optional point (at least one digit), an optional exponent, and nothing
\* else.  The value is kept as its text.
F32Exponent(t, i) ==
    IF i = Len(t) THEN TRUE
    ELSE /\ t[i + 1] \in {"e", "E"}
         /\ SpanLen(t, Digits, i + 1 + SignLen(Drop(t, i + 1))) = Len(t)
         /\ Len(t) > i + 1 + SignLen(Drop(t, i + 1))

F32Fraction(t, i0, i1) ==
    IF i1 < Len(t) /\ t[i1 + 1] = "."
    THEN /\ SpanLen(t, Digits, i1 + 1) - 1 > i0
         /\ F32Exponent(t, SpanLen(t, Digits, i1 + 1))
    ELSE i1 > i0 /\ F32Exponent(t, i1)

parse_f32(t) == F32Fraction(t, SignLen(t), SpanLen(t, Digits, SignLen(t)))

VersionOf(r) == IF r.ok /\ parse_f32(r.val) THEN r ELSE PFail

\* metadata_version: map_res(statement("STARTFONT", String::parse), parse)
metadata_version(s) == VersionOf(statement(Kw.STARTFONT, "String", s))

metadata_name(s) == statement(Kw.FONT, "String", s)

metadata_size(s) == statement(Kw.SIZE, "size", s)

metadata_bounding_box(s) == statement(Kw.FONTBOUNDINGBOX, "Rectangle", s)

header_version(s) ==
    With(POk(s, <<>>), "version", metadata_version(optional_comments(s).rest))

header_name(st) ==
    IF st.ok THEN With(st, "name", metadata_name(optional_comments(st.rest).rest))
    ELSE PFail

header_size(st) ==
    IF st.ok THEN With(st, "size", metadata_size(optional_comments(st.rest).rest))
    ELSE PFail

header_bounding_box(st) ==
    IF st.ok
    THEN With(st, "bounding_box",
              metadata_bounding_box(optional_comments(st.rest).rest))
    ELSE PFail

header_end(st) ==
    IF st.ok
    THEN POk(multispace0(optional_comments(st.rest).rest).rest,
             [version |-> st.val.version,
              name |-> st.val.name,
              point_size |-> st.val.size[1],
              resolution |-> st.val.size[2],
              bounding_box |-> st.val.bounding_box])
    ELSE PFail

\* header (Metadata::parse): the four statements in order, comments before
\* each and after
header(s) ==
    header_end(header_bounding_box(header_size(header_name(header_version(s)))))

(***************************************************************************)
(* The properties section: an optional STARTPROPERTIES <count> ...         *)
(* ENDPROPERTIES block of KEY "text" and KEY integer lines, COMMENT lines  *)
(* skipped, the count not compared with the number of entries.             *)
(***************************************************************************)
\* a double-quoted string: the text between the quotes
QuotedEnd(body) ==
    IF body.ok THEN KeepVal([kind |-> "Text", v |-> body.val], tag(<<"\"">>, body.rest))
    ELSE PFail

QuotedFrom(q) == IF q.ok THEN QuotedEnd(take_until(<<"\"">>, q.rest)) ELSE PFail

IntFrom(i) == IF i.ok THEN POk(i.rest, [kind |-> "Int", v |-> i.val]) ELSE PFail

property_value(s) ==
    IF StartsWith(s, <<"\"">>) THEN QuotedFrom(tag(<<"\"">>, s)) ELSE IntFrom(parse_i32(s))

PropertyValueAfter(key) ==
    IF key.ok THEN PairWith(key.val, property_value(key.rest)) ELSE PFail

\* KEY value, blanks, an optional line ending
property(s) ==
    statement_tail(PropertyValueAfter(AfterSpace1(
        SplitAt1(s, SpanLenNot(s, MultiBlank, 0)))))

RECURSIVE properties_entries(_, _)
PropertiesNext(acc, e) ==
    IF e.ok THEN properties_entries(e.rest, acc @@ (e.val[1] :> e.val[2])) ELSE PFail

PropertiesSkip(s, acc, c) ==
    IF c.ok THEN properties_entries(c.rest, acc) ELSE PropertiesNext(acc, property(s))

PropertiesEntry(s, acc) ==
    IF StartsWith(s, Kw.ENDPROPERTIES)
    THEN KeepVal(acc, OptLineEnding(space0(Drop(s, Len(Kw.ENDPROPERTIES))).rest))
    ELSE PropertiesSkip(s, acc, comment(s))

properties_entries(s, acc) == PropertiesEntry(multispace0(s).rest, acc)

PropertiesBody(start) ==
    IF start.ok THEN properties_entries(start.rest, <<>>) ELSE PFail

\* Properties::parse
Properties_parse(s) ==
    IF StartsWith(multispace0(s).rest, Kw.STARTPROPERTIES)
    THEN PropertiesBody(statement(Kw.STARTPROPERTIES, "u32", s))
    ELSE POk(s, <<>>)

(***************************************************************************)
(* The glyphs section: an optional CHARS <n>, then glyph blocks as long as *)
(* a STARTCHAR follows.                                                    *)
(***************************************************************************)
RECURSIVE glyphs_many(_, _)
GlyphsNext(acc, g) ==
    IF g.ok THEN glyphs_many(g.rest, Append(acc, g.val)) ELSE PFail

glyphs_many(s, acc) ==
    IF StartsWith(multispace0(s).rest, Kw.STARTCHAR)
    THEN GlyphsNext(acc, glyph(s))
    ELSE POk(s, acc)

\* Glyphs::parse
Glyphs_parse(s) ==
    glyphs_many(multispace0(opt(statement(KwCHARS, "u32", s), s).rest).rest, <<>>)

(***************************************************************************)
(* BdfFont::parse (lib.rs).  The state of a parse is the remainder and the *)
(* sections parsed so far, or the error it ended with.                     *)
(***************************************************************************)
Err(e) == [ok |-> FALSE, err |-> e]

skip_whitespace(s) == multispace0(s).rest

\* a faulty end_font: tag("ENDFONT") without opt
MutEndFontRequired(s) == KeepVal(Some(Kw.ENDFONT), tag(Kw.ENDFONT, s))

\* end_font: opt(tag("ENDFONT"))
end_font(s) == opt(tag(Kw.ENDFONT, s), s)

\* a faulty end_of_file: succeeds on any remainder
MutEndOfFileAlways(s) == POk(s, s)

\* end_of_file: eof
end_of_file(s) == IF s = <<>> THEN POk(s, s) ELSE PFail

\* a faulty map_err: every failure reported as Metadata
MutSectionAnyError(st, field, e, r) ==
    IF r.ok THEN POk(r.rest, st.val @@ (field :> r.val)) ELSE Err("Metadata")

\* let (input, x) = X::parse(input).map_err(|_| ParserError::E)?
Section(st, field, e, r) ==
    IF r.ok THEN POk(r.rest, st.val @@ (field :> r.val)) ELSE Err(e)

parse_metadata(s) ==
    Section(POk(s, <<>>), "metadata", "Metadata", header(skip_whitespace(s)))

parse_properties(st) ==
    IF st.ok
    THEN Section(st, "properties", "Properties",
                 Properties_parse(skip_whitespace(st.rest)))
    ELSE st

parse_glyphs(st) ==
    IF st.ok
    THEN Section(st, "glyphs", "Glyphs", Glyphs_parse(skip_whitespace(st.rest)))
    ELSE st

\* end_font(input).unwrap()
EndFontUnwrap(st, r) == IF r.ok THEN POk(r.rest, st.val) ELSE Err("panic")

parse_end_font(st) ==
    IF st.ok THEN EndFontUnwrap(st, end_font(skip_whitespace(st.rest))) ELSE st

EndOfFileCheck(st, r) == IF r.ok THEN POk(r.rest, st.val) ELSE Err("EndOfFile")

parse_end_of_file(st) ==
    IF st.ok THEN EndOfFileCheck(st, end_of_file(skip_whitespace(st.rest))) ELSE st

\* BdfFont::parse(input): Err(e), or POk(<<>>, font); an error ends the parse
\* at the section that raised it
BdfFont_parse(s) ==
    parse_end_of_file(parse_end_font(parse_glyphs(parse_properties(
        parse_metadata(s)))))

(***************************************************************************)
(* Glyph blocks under test: every ENCODING code of Codes, with and without *)
(* SWIDTH, 0 .. MaxRows bitmap lines of 2, 4 or 8 hexadecimal digits, in   *)
(* both line-ending conventions.                                           *)
(***************************************************************************)
LF == <<"\n">>

CRLF == <<"\r", "\n">>

DigitChar == <<"0", "1", "2", "3", "4", "5", "6", "7", "8", "9">>

HexChar == DigitChar \o <<"a", "b", "c", "D", "E", "F">>

\* the decimal digits of n >= 0
RECURSIVE DigitsOf(_)
DigitsOf(n) ==
    IF n < 10 THEN <<DigitChar[n + 1]>>
    ELSE DigitsOf(n \div 10) \o <<DigitChar[(n % 10) + 1]>>

\* the decimal text of an i32
DecimalOf(n) ==
    IF n >= 0 THEN DigitsOf(n)
    ELSE IF n = I32Min THEN <<"-">> \o DigitsOf(I32Max \div 10) \o <<"8">>
    ELSE <<"-">> \o DigitsOf(-n)

\* the lines of ls, each two joined by eol
RECURSIVE Join(_, _)
Join(ls, eol) ==
    IF ls = <<>> THEN <<>>
    ELSE IF Len(ls) = 1 THEN ls[1]
    ELSE ls[1] \o eol \o Join(Tail(ls), eol)

MaxRows == 3

Codes == {I32Min, -1, 0, 65, SurrogateMin - 1, SurrogateMin, SurrogateMax,
          SurrogateMax + 1, CharMax, CharMax + 1, I32Max}

\* line i of a bitmap with n digits per line
RowDigits(i, n) == [j \in 1 .. n |-> HexChar[((i * 7 + j * 5) % 16) + 1]]

GlyphDocs ==
    [code : Codes, swidth : BOOLEAN, digits : {2, 4, 8}, rows : 0 .. MaxRows,
     eol : {LF, CRLF}]

GlyphLines(d) ==
    <<Kw.STARTCHAR \o <<" ", "C">>,
      Kw.ENCODING \o <<" ">> \o DecimalOf(d.code)>>
    \o (IF d.swidth THEN <<Kw.SWIDTH \o <<" ", "5", "0", "0", " ", "0">>>> ELSE <<>>)
    \o <<Kw.DWIDTH \o <<" ", "8", " ", "0">>,
         Kw.BBX \o <<" ">> \o DigitsOf(d.digits * 4) \o <<" ">> \o DigitsOf(d.rows)
            \o <<" ", "0", " ", "-", "2">>,
         Kw.BITMAP>>
    \o [i \in 1 .. d.rows |-> RowDigits(i, d.digits)]
    \o <<Kw.ENDCHAR>>

RenderGlyph(d) == Join(GlyphLines(d), d.eol)

glyphVars == <<gdoc, ginput, gres, gpc>>

GlyphIdle ==
    /\ gdoc = [code |-> 0, swidth |-> FALSE, digits |-> 2, rows |-> 0, eol |-> LF]
    /\ ginput = <<>>
    /\ gres = PFail
    /\ gpc = "idle"

fontVars == <<fdoc, finput, fst, fpc>>

FontIdle ==
    /\ fdoc = [eol |-> LF, header |-> "plain", props |-> "none", chars |-> FALSE,
               glyphs |-> <<>>, endfont |-> FALSE, trailer |-> <<>>]
    /\ finput = <<>>
    /\ fst = PFail
    /\ fpc = "idle"

headerVars == <<hdoc, hinput, hres, hpc>>

HeaderIdle ==
    /\ hdoc = [eol |-> LF, shape |-> <<>>, comments |-> <<>>, tail |-> "eof"]
    /\ hinput = <<>>
    /\ hres = PFail
    /\ hpc = "idle"

UnionIdle ==
    /\ a = bb(0, 0, 0, 0)
    /\ b = bb(0, 0, 0, 0)
    /\ res = [kind |-> "none"]
    /\ upc = "idle"

InitGlyph ==
    /\ gdoc \in GlyphDocs
    /\ ginput = RenderGlyph(gdoc)
    /\ gres = PFail
    /\ gpc = "ready"
    /\ UnionIdle
    /\ FontIdle
    /\ HeaderIdle

\* glyph(ginput)
CallGlyph ==
    /\ gpc = "ready"
    /\ gres' = glyph(ginput)
    /\ gpc' = "done"
    /\ UNCHANGED <<gdoc, ginput>>
    /\ UNCHANGED <<a, b, res, upc>>
    /\ UNCHANGED fontVars
    /\ UNCHANGED headerVars

SpecGlyph == InitGlyph /\ [][CallGlyph]_vars

(***************************************************************************)
(* The operands of union: small coordinates around the origin, plus the    *)
(* ends of the i32 range and one negative size.                            *)
(***************************************************************************)
MaxOff == 1

MaxSize == 2

Offsets == (-MaxOff .. MaxOff) \cup {I32Min, I32Max}

Sizes == (-1 .. MaxSize) \cup {I32Max}

Boxes == {bb(ox, oy, sx, sy) : ox \in Offsets, oy \in Offsets, sx \in Sizes, sy \in Sizes}

InitUnion ==
    /\ a \in Boxes
    /\ b \in Boxes
    /\ res = [kind |-> "none"]
    /\ upc = "ready"
    /\ GlyphIdle
    /\ FontIdle
    /\ HeaderIdle

\* a.union(&b) in either build
CallUnion ==
    /\ upc = "ready"
    /\ \E build \in Builds : res' = union(a, b, build)
    /\ upc' = "done"
    /\ UNCHANGED <<a, b>>
    /\ UNCHANGED glyphVars
    /\ UNCHANGED fontVars
    /\ UNCHANGED headerVars

SpecUnion == InitUnion /\ [][CallUnion]_vars

(***************************************************************************)
(* Font files under test: a header (plain, with COMMENT lines, or without  *)
(* its SIZE statement), no properties block, a block, or one that is never *)
(* closed, an optional CHARS line, 0 .. MaxGlyphs glyph blocks (complete   *)
(* or without their BBX statement), an optional ENDFONT and 0 ..           *)
(* MaxTrailer bytes after the last line, in both line-ending conventions.  *)
(***************************************************************************)
MaxGlyphs == 1

MaxTrailer == 1

TrailerBytes == {" ", "\t", "\r", "\n", "X"}

SeqsUpTo(S, n) == UNION {[1 .. k -> S] : k \in 0 .. n}

FontDocs ==
    [eol : {LF, CRLF}, header : {"plain", "comments", "no_size"},
     props : {"none", "block", "unterminated"}, chars : BOOLEAN,
     glyphs : SeqsUpTo({"ok", "bad"}, MaxGlyphs), endfont : BOOLEAN,
     trailer : SeqsUpTo(TrailerBytes, MaxTrailer)]

HeaderLines(d) ==
    (IF d.header = "comments" THEN <<Kw.COMMENT \o <<" ", "t", "o", "p">>>> ELSE <<>>)
    \o <<Kw.STARTFONT \o <<" ", "2", ".", "1">>>>
    \o (IF d.header = "comments" THEN <<Kw.COMMENT>> ELSE <<>>)
    \o <<Kw.FONT \o <<" ", "t">>>>
    \o (IF d.header = "no_size" THEN <<>> ELSE <<Kw.SIZE \o <<" ", "1", "6", " ", "7", "5", " ", "7", "5">>>>)
    \o (IF d.header = "comments" THEN <<Kw.COMMENT \o <<" ", "m", "i", "d">>>> ELSE <<>>)
    \o <<Kw.FONTBOUNDINGBOX \o <<" ", "1", "6", " ", "2", "4", " ", "0", " ", "0">>>>

PropertiesLines(d) ==
    IF d.props = "none" THEN <<>>
    ELSE <<Kw.STARTPROPERTIES \o <<" ", "2">>,
           <<"C", "O", "P", "Y", "R", "I", "G", "H", "T", " ", "\"", "C", "p", "\"">>,
           Kw.COMMENT \o <<" ", "c">>,
           <<"F", "O", "N", "T", "_", "A", "S", "C", "E", "N", "T", " ", "1">>>>
         \o (IF d.props = "block" THEN <<Kw.ENDPROPERTIES>> ELSE <<>>)

FontGlyphLines(i, kind) ==
    <<Kw.STARTCHAR \o <<" ", "C">> \o DigitsOf(i),
      Kw.ENCODING \o <<" ">> \o DigitsOf(64 + i),
      Kw.DWIDTH \o <<" ", "8", " ", "0">>>>
    \o (IF kind = "ok" THEN <<Kw.BBX \o <<" ", "8", " ", "2", " ", "0", " ", "0">>>> ELSE <<>>)
    \o <<Kw.BITMAP, <<"1", "f">>, <<"0", "1">>, Kw.ENDCHAR>>

RECURSIVE GlyphsLines(_, _)
GlyphsLines(kinds, i) ==
    IF i > Len(kinds) THEN <<>>
    ELSE FontGlyphLines(i, kinds[i]) \o GlyphsLines(kinds, i + 1)

FontLines(d) ==
    HeaderLines(d) \o PropertiesLines(d)
    \o (IF d.chars THEN <<KwCHARS \o <<" ">> \o DigitsOf(Len(d.glyphs))>> ELSE <<>>)
    \o GlyphsLines(d.glyphs, 1)
    \o (IF d.endfont THEN <<Kw.ENDFONT>> ELSE <<>>)

RenderFont(d) == Join(FontLines(d), d.eol) \o d.trailer

InitFont ==
    /\ fdoc \in FontDocs
    /\ finput = RenderFont(fdoc)
    /\ fst = POk(finput, <<>>)
    /\ fpc = "metadata"
    /\ UnionIdle
    /\ GlyphIdle
    /\ HeaderIdle

\* lib.rs 46-47: skip_whitespace, Metadata::parse
ParseMetadata ==
    /\ fpc = "metadata"
    /\ fst' = parse_metadata(fst.rest)
    /\ fpc' = (IF fst'.ok THEN "properties" ELSE "done")
    /\ UNCHANGED <<fdoc, finput>>
    /\ UNCHANGED <<a, b, res, upc>>
    /\ UNCHANGED glyphVars
    /\ UNCHANGED headerVars

\* lib.rs 48-49: skip_whitespace, Properties::parse
ParseProperties ==
    /\ fpc = "properties"
    /\ fst' = parse_properties(fst)
    /\ fpc' = (IF fst'.ok THEN "glyphs" ELSE "done")
    /\ UNCHANGED <<fdoc, finput>>
    /\ UNCHANGED <<a, b, res, upc>>
    /\ UNCHANGED glyphVars
    /\ UNCHANGED headerVars

\* lib.rs 50-51: skip_whitespace, Glyphs::parse
ParseGlyphs ==
    /\ fpc = "glyphs"
    /\ fst' = parse_glyphs(fst)
    /\ fpc' = (IF fst'.ok THEN "end_font" ELSE "done")
    /\ UNCHANGED <<fdoc, finput>>
    /\ UNCHANGED <<a, b, res, upc>>
    /\ UNCHANGED glyphVars
    /\ UNCHANGED headerVars

\* lib.rs 52-53: skip_whitespace, end_font(input).unwrap()
EndFont ==
    /\ fpc = "end_font"
    /\ fst' = parse_end_font(fst)
    /\ fpc' = (IF fst'.ok THEN "end_of_file" ELSE "done")
    /\ UNCHANGED <<fdoc, finput>>
    /\ UNCHANGED <<a, b, res, upc>>
    /\ UNCHANGED glyphVars
    /\ UNCHANGED headerVars

\* lib.rs 54-61: skip_whitespace, end_of_file, Ok(BdfFont { .. })
EndOfFile ==
    /\ fpc = "end_of_file"
    /\ fst' = parse_end_of_file(fst)
    /\ fpc' = "done"
    /\ UNCHANGED <<fdoc, finput>>
    /\ UNCHANGED <<a, b, res, upc>>
    /\ UNCHANGED glyphVars
    /\ UNCHANGED headerVars

NextFont ==
    \/ ParseMetadata
    \/ ParseProperties
    \/ ParseGlyphs
    \/ EndFont
    \/ EndOfFile

SpecFont == InitFont /\ [][NextFont]_vars

(***************************************************************************)
(* Header texts under test: the four statements in order, with one of them *)
(* missing, with two neighbours swapped, or with one of them malformed;    *)
(* 0 .. MaxComments COMMENT lines before the first statement, between each *)
(* two and after the last; the last line ending the input, ended by a line *)
(* ending, or followed by a blank line and the start of a glyph block; in  *)
(* both line-ending conventions.                                           *)
(***************************************************************************)
MaxComments == 1

GoodShape == <<"STARTFONT", "FONT", "SIZE", "FONTBOUNDINGBOX">>

\* shape without its i-th statement
Without(shape, i) == Take(shape, i - 1) \o Drop(shape, i)

\* shape with its i-th and (i+1)-th statements swapped
Swapped(shape, i) ==
    [k \in 1 .. Len(shape) |->
        IF k = i THEN shape[i + 1] ELSE IF k = i + 1 THEN shape[i] ELSE shape[k]]

\* shape with its i-th statement malformed
Malformed(shape, i) ==
    [shape EXCEPT ![i] =
        CASE shape[i] = "STARTFONT" -> "STARTFONT malformed"
          [] shape[i] = "FONT" -> "FONT malformed"
          [] shape[i] = "SIZE" -> "SIZE malformed"
          [] shape[i] = "FONTBOUNDINGBOX" -> "FONTBOUNDINGBOX malformed"]

HeaderShapes ==
    {GoodShape}
    \cup {Without(GoodShape, i) : i \in 1 .. 4}
    \cup {Swapped(GoodShape, i) : i \in 1 .. 3}
    \cup {Malformed(GoodShape, i) : i \in 1 .. 4}

HeaderDocs ==
    [eol : {LF, CRLF}, shape : HeaderShapes,
     comments : [0 .. 4 -> 0 .. MaxComments], tail : {"eof", "eol", "next"}]

\* the line of one statement of a shape
StatementLine(id) ==
    CASE id = "STARTFONT" -> Kw.STARTFONT \o <<" ", "2", ".", "1">>
      [] id = "FONT" -> Kw.FONT \o <<" ", "t">>
      [] id = "SIZE" -> Kw.SIZE \o <<" ", "1", "6", " ", "7", "5", " ", "7", "5">>
      [] id = "FONTBOUNDINGBOX" -> Kw.FONTBOUNDINGBOX \o <<" ", "1", "6", " ", "2", "4", " ", "0", " ", "0">>
      [] id = "STARTFONT malformed" -> Kw.STARTFONT \o <<" ", "x">>
      [] id = "FONT malformed" -> Kw.FONT
      [] id = "SIZE malformed" -> Kw.SIZE \o <<" ", "1", "6", " ", "7", "5">>
      [] id = "FONTBOUNDINGBOX malformed" -> Kw.FONTBOUNDINGBOX \o <<" ", "1", "6", " ", "2", "4", " ", "0">>

\* n COMMENT lines, with and without a body in turn
CommentLines(n) ==
    [k \in 1 .. n |-> IF k % 2 = 1 THEN Kw.COMMENT \o <<" ", "c">> ELSE Kw.COMMENT]

\* the comments before statement i and the statement, for every i from i on,
\* then the comments after the last statement
RECURSIVE HeaderLinesFrom(_, _)
HeaderLinesFrom(d, i) ==
    IF i > Len(d.shape) THEN CommentLines(d.comments[4])
    ELSE CommentLines(d.comments[i - 1]) \o <<StatementLine(d.shape[i])>>
         \o HeaderLinesFrom(d, i + 1)

\* what follows the header when something does
NextText == Kw.STARTCHAR \o <<" ", "C">>

HeaderTail(d) ==
    CASE d.tail = "eof" -> <<>>
      [] d.tail = "eol" -> d.eol
      [] d.tail = "next" -> d.eol \o d.eol \o <<" ">> \o NextText

RenderHeader(d) == Join(HeaderLinesFrom(d, 1), d.eol) \o HeaderTail(d)

InitHeader ==
    /\ hdoc \in HeaderDocs
    /\ hinput = RenderHeader(hdoc)
    /\ hres = PFail
    /\ hpc = "ready"
    /\ UnionIdle
    /\ GlyphIdle
    /\ FontIdle

\* header(hinput)
CallHeader ==
    /\ hpc = "ready"
    /\ hres' = header(hinput)
    /\ hpc' = "done"
    /\ UNCHANGED <<hdoc, hinput>>
    /\ UNCHANGED <<a, b, res, upc>>
    /\ UNCHANGED glyphVars
    /\ UNCHANGED fontVars

SpecHeader == InitHeader /\ [][CallHeader]_vars

(***************************************************************************)
(* Properties of union.                                                    *)
(***************************************************************************)
PositiveSize(box) == box.size.x > 0 /\ box.size.y > 0

\* offset + size - 1 as an exact integer
ExactCorner(o, s) == WSub(WAdd(W(o), W(s)), W(1))

\* r surrounds box, in exact integers
Contains(r, box) ==
    /\ r.offset.x <= box.offset.x
    /\ r.offset.y <= box.offset.y
    /\ WLeq(ExactCorner(box.offset.x, box.size.x), ExactCorner(r.offset.x, r.size.x))
    /\ WLeq(ExactCorner(box.offset.y, box.size.y), ExactCorner(r.offset.y, r.size.y))

\* max(o1 + s1 - 1, o2 + s2 - 1) - min(o1, o2) + 1 as an exact integer
ExactExtent(o1, s1, o2, s2) ==
    WAdd(WSub(WMax(ExactCorner(o1, s1), ExactCorner(o2, s2)),
              W(IF o1 <= o2 THEN o1 ELSE o2)), W(1))

\* r is the smallest box surrounding p and q, in exact integers
SmallestSurrounding(r, p, q) ==
    /\ r.offset.x = (IF p.offset.x <= q.offset.x THEN p.offset.x ELSE q.offset.x)
    /\ r.offset.y = (IF p.offset.y <= q.offset.y THEN p.offset.y ELSE q.offset.y)
    /\ W(r.size.x) = ExactExtent(p.offset.x, p.size.x, q.offset.x, q.size.x)
    /\ W(r.size.y) = ExactExtent(p.offset.y, p.size.y, q.offset.y, q.size.y)

\* C2 as stated: with non-negative sizes, a zero size component in b gives a
\* back unchanged and a zero size component in a gives b back unchanged.
C2_AsStated ==
    (upc = "done" /\ ~NegativeSize(a) /\ ~NegativeSize(b)) =>
        /\ ZeroSize(b) => res = Ok(a)
        /\ ZeroSize(a) => res = Ok(b)

\* C2 (amended): with non-negative sizes, a zero size component in b gives a
\* back unchanged (whatever a is), and a zero size component in a gives b back
\* unchanged when b has no zero size component; so union(a, z) = a and
\* union(z, a) = a for every a with both sizes > 0 and every zero-size z.
C2_ZeroSizeIdentity ==
    (upc = "done" /\ ~NegativeSize(a) /\ ~NegativeSize(b)) =>
        /\ ZeroSize(b) => res = Ok(a)
        /\ (ZeroSize(a) /\ ~ZeroSize(b)) => res = Ok(b)

C2_Witness ==
    /\ upc = "done"
    /\ ZeroSize(a) /\ ~NegativeSize(a) /\ PositiveSize(b)
    /\ a.offset # b.offset
    /\ res = Ok(b)

C4_AsStated ==
    (upc = "done" /\ PositiveSize(a) /\ PositiveSize(b)) =>
        /\ res.kind = "ok"
        /\ SmallestSurrounding(res.box, a, b)

\* C5 as stated: union panics exactly when some size component is negative,
\* and what it returns for sizes > 0 is the smallest surrounding box.
C5_AsStated ==
    upc = "done" =>
        /\ (res = Panic) <=> (NegativeSize(a) \/ NegativeSize(b))
        /\ (res.kind = "ok" /\ PositiveSize(a) /\ PositiveSize(b))
              => SmallestSurrounding(res.box, a, b)

(***************************************************************************)
(* Properties of the glyph parser.                                         *)
(***************************************************************************)
\* C1 as stated: the bitmap of a glyph block with d.rows lines of
\* hexadecimal digits has d.rows entries (the BBX size_y), and entry i holds
\* the digits of line i and of no other line.
C1_AsStated ==
    gpc = "done" =>
        /\ gres.ok
        /\ gres.val.bounding_box.size.height = W(gdoc.rows)
        /\ Len(gres.val.bitmap) = gdoc.rows
        /\ \A i \in 1 .. gdoc.rows :
              gres.val.bitmap[i] = ChunkValue(RowDigits(i, gdoc.digits))

\* C6: whatever i32 code the ENCODING statement holds, the glyph parses; the
\* encoding is the code itself when 0 <= code <= 0x10FFFF and the code is no
\* surrogate, and is absent for every other code.
C6_Encoding ==
    gpc = "done" =>
        /\ gres.ok
        /\ gres.val.encoding =
              (IF gdoc.code >= 0 /\ gdoc.code <= 1114111
                  /\ ~(gdoc.code >= 55296 /\ gdoc.code <= 57343)
               THEN Some(gdoc.code) ELSE None)

C6_Witness ==
    /\ gpc = "done"
    /\ gdoc.code = -1
    /\ gres.ok
    /\ gres.val.encoding = None


\* the value of digit k of the digits of all bitmap lines of d, in order
StreamDigit(d, k) == (((((k - 1) \div d.digits) + 1) * 7) + ((((k - 1) % d.digits) + 1) * 5)) % 16

\* the sum of digit * 16^(to - k) over the digits from .. to of d's stream
RECURSIVE StreamValue(_, _, _)
StreamValue(d, from, to) ==
    IF from > to THEN 0
    ELSE StreamValue(d, from, to - 1) * 16 + StreamDigit(d, to)

\* group g of 8 digits of d's stream as a 32-bit value <<hi, lo>>: the first
\* digit most significant, a short last group right-aligned
GroupValue(d, g, last) ==
    IF last - (8 * (g - 1)) <= 4
    THEN <<0, StreamValue(d, (8 * (g - 1)) + 1, last)>>
    ELSE <<StreamValue(d, (8 * (g - 1)) + 1, last - 4),
           StreamValue(d, last - 3, last)>>

SectionsValid(d) ==
    /\ d.header # "no_size"
    /\ d.props # "unterminated"
    /\ \A i \in 1 .. Len(d.glyphs) : d.glyphs[i] = "ok"

\* some byte after the last line of d is no space, tab, CR or LF
Garbage(d) == \E i \in 1 .. Len(d.trailer) : d.trailer[i] \notin MultiBlank

\* the first section of d that is malformed, "none" if there is none
FirstError(d) ==
    IF d.header = "no_size" THEN "Metadata"
    ELSE IF d.props = "unterminated" THEN "Properties"
    ELSE IF \E i \in 1 .. Len(d.glyphs) : d.glyphs[i] = "bad" THEN "Glyphs"
    ELSE IF Garbage(d) THEN "EndOfFile"
    ELSE "none"

IsSuffix(t, s) == Len(t) <= Len(s) /\ Drop(s, Len(s) - Len(t)) = t

\* the text of d up to its last line before ENDFONT, nothing after it
TruncateAtEndFont(d) == Join(FontLines([d EXCEPT !.endfont = FALSE]), d.eol)

\* the text of d with the keyword ENDFONT taken out of its last line
RemoveEndFont(d) == TruncateAtEndFont(d) \o d.eol \o d.trailer

\* s[lo .. hi] with every \n that no \r precedes turned into \r\n
RECURSIVE ToCRLFRange(_, _, _)
ToCRLFRange(s, lo, hi) ==
    IF lo > hi THEN <<>>
    ELSE IF lo = hi
         THEN (IF s[lo] = "\n" /\ (lo = 1 \/ s[lo - 1] # "\r") THEN CRLF
               ELSE <<s[lo]>>)
         ELSE ToCRLFRange(s, lo, (lo + hi) \div 2)
              \o ToCRLFRange(s, ((lo + hi) \div 2) + 1, hi)

ToCRLF(s) == ToCRLFRange(s, 1, Len(s))

\* C7: when header, properties and glyphs are well-formed and ENDFONT is
\* present, the parse ends with Err(EndOfFile) if some byte after ENDFONT is
\* no whitespace (space, tab, CR, LF), and with Ok if only whitespace, or
\* nothing, follows ENDFONT.
C7_TrailingBytes ==
    (fpc = "done" /\ SectionsValid(fdoc) /\ fdoc.endfont) =>
        IF Garbage(fdoc) THEN fst = Err("EndOfFile") ELSE fst.ok

C7_Witness ==
    /\ fpc = "done"
    /\ SectionsValid(fdoc) /\ fdoc.endfont
    /\ Len(fdoc.glyphs) >= 1
    /\ Garbage(fdoc)
    /\ fst = Err("EndOfFile")

\* C8: when an input that ends with an ENDFONT line parses successfully, the
\* same input without ENDFONT (cut after its last line before ENDFONT, or
\* with only the keyword taken out) parses successfully to the same font:
\* equal metadata, glyphs and properties.
C8_EndFontOptional ==
    (fpc = "done" /\ fst.ok /\ fdoc.endfont) =>
        /\ BdfFont_parse(TruncateAtEndFont(fdoc)) = fst
        /\ BdfFont_parse(RemoveEndFont(fdoc)) = fst

C8_Witness ==
    /\ fpc = "done"
    /\ fst.ok /\ fdoc.endfont
    /\ Len(fdoc.glyphs) >= 1
    /\ fdoc.props = "block"
    /\ BdfFont_parse(TruncateAtEndFont(fdoc)) = fst

\* C9: an input with \n line ends and the same input with \r\n line ends
\* have the same outcome: the same error, or equal fonts.
C9_LineEndings ==
    (fpc = "done" /\ fdoc.eol = LF) => BdfFont_parse(ToCRLF(finput)) = fst

C9_Witness ==
    /\ fpc = "done"
    /\ fdoc.eol = LF
    /\ fdoc.header = "comments" /\ fdoc.props = "block" /\ Len(fdoc.glyphs) >= 1
    /\ fst.ok
    /\ ToCRLF(finput) # finput
    /\ BdfFont_parse(ToCRLF(finput)) = fst

\* C10: the sections run in the order Metadata, Properties, Glyphs, ENDFONT,
\* end of input, each on the remainder the one before left; before a section
\* runs, the sections before it have succeeded and none after it has run;
\* the parse ends with the error of the first malformed section and nothing
\* else, or with a font that has all of metadata, properties and glyphs.
C10_SectionOrder ==
    /\ fpc \in {"metadata", "properties", "glyphs", "end_font", "end_of_file"}
          => fst.ok /\ IsSuffix(fst.rest, finput)
    /\ fpc = "metadata" => fst.val = <<>>
    /\ fpc = "properties" => DOMAIN fst.val = {"metadata"}
    /\ fpc = "glyphs" => DOMAIN fst.val = {"metadata", "properties"}
    /\ fpc \in {"end_font", "end_of_file"}
          => DOMAIN fst.val = {"metadata", "properties", "glyphs"}
    /\ fpc = "done" =>
          IF FirstError(fdoc) # "none" THEN fst = Err(FirstError(fdoc))
          ELSE /\ fst.ok
               /\ fst.rest = <<>>
               /\ DOMAIN fst.val = {"metadata", "properties", "glyphs"}
               /\ fst.val.metadata.name = <<"t">>
               /\ Len(fst.val.glyphs) = Len(fdoc.glyphs)
               /\ DOMAIN fst.val.properties =
                     (IF fdoc.props = "block" THEN {<<"C", "O", "P", "Y", "R", "I", "G", "H", "T">>, <<"F", "O", "N", "T", "_", "A", "S", "C", "E", "N", "T">>} ELSE {})

C10_Witness ==
    /\ fpc = "done"
    /\ fdoc.props = "block"
    /\ fdoc.endfont /\ ~Garbage(fdoc)
    /\ fst = Err("Glyphs")


(***************************************************************************)
(* Properties of the header parser.                                        *)
(***************************************************************************)
\* the Metadata of the four well-formed statements
HeaderMetadata ==
    [version |-> <<"2", ".", "1">>,
     name |-> <<"t">>,
     point_size |-> 16,
     resolution |-> [width |-> W(75), height |-> W(75)],
     bounding_box |-> [top_left |-> [x |-> 0, y |-> 0],
                       size |-> [width |-> W(16), height |-> W(24)]]]

\* what follows the header of d, its trailing comments and whitespace
AfterHeader(d) == IF d.tail = "next" THEN NextText ELSE <<>>

\* C11 as stated: header succeeds exactly for the four statements in the
\* order STARTFONT, FONT, SIZE, FONTBOUNDINGBOX, with any number of COMMENT
\* lines before the first, between each two and after the last; it then
\* gives the Metadata and a remainder that starts after the trailing
\* comments and whitespace; with a statement missing, malformed or out of
\* order it fails and gives no Metadata.
C11_AsStated ==
    hpc = "done" =>
        IF hdoc.shape = GoodShape
        THEN hres = POk(AfterHeader(hdoc), HeaderMetadata)
        ELSE hres = PFail

=============================================================================
